---------------------------- MODULE Spec2Model ----------------------------
(***************************************************************************)
(* A model of the two ETL pipelines of the repository: the air-quality     *)
(* pipeline (extract.py, transform.py, load.py, run_pipeline.py) and the   *)
(* customer-churn loader and validator (customer_churn_etl/scripts/load.py *)
(* and validate.py).                                                       *)
(*                                                                         *)
(* Every script is a command-line entry point of its own; the variable     *)
(* entry names the one that runs in a behaviour.  The entry points are     *)
(*   "fetch_city"  a direct call _fetch_city(city, max_retries, timeout)   *)
(*   "extract"     python extract.py  (fetch_all_cities)                   *)
(*   "transform"   python transform.py  (transform_all)                    *)
(*   "air_load"    a call load_to_supabase(staged_csv_path, batch_size)    *)
(*                 of ETL_AirQuality_API/load.py                           *)
(*   "churn_load"  a call load_to_supabase(staged_path) of                 *)
(*                 customer_churn_etl/scripts/load.py                      *)
(*   "validate"    python validate.py  (validate_data) of the churn        *)
(*                 pipeline; it can also be run after the churn loader     *)
(*   "runner"      python run_pipeline.py  (run_full_pipeline)             *)
(* The external collaborators (the HTTP API, the file system, the store)   *)
(* answer nondeterministically.                                            *)
(***************************************************************************)
EXTENDS Integers, Sequences, FiniteSets, TLC

(***************************************************************************)
(* Bounds of the model.                                                    *)
(***************************************************************************)
MaxRetriesArg == 4
MaxCities == 2
MaxRows == 4
MaxBatch == 3
MaxFiles == 2

(***************************************************************************)
(* Program constants.                                                      *)
(***************************************************************************)
MAX_RETRIES == 3
LOAD_ATTEMPTS == 2
LOAD_RETRY_SLEEP == 2
BATCH_SIZE == 200

None == "None"

DEFAULT_CITIES == <<"Delhi", "Mumbai", "Bengaluru", "Hyderabad", "Kolkata">>

\* The errors requests.get / raise_for_status can raise (RequestException).
RequestErrors == {"ConnectionError", "HTTPError"}

RECURSIVE Pow2(_)
Pow2(n) == IF n <= 0 THEN 1 ELSE 2 * Pow2(n - 1)

RECURSIVE SumSeq(_)
SumSeq(s) == IF s = <<>> THEN 0 ELSE Head(s) + SumSeq(Tail(s))

RECURSIVE Flatten(_)
Flatten(ss) == IF ss = <<>> THEN <<>> ELSE Head(ss) \o Flatten(Tail(ss))

Min(a, b) == IF a <= b THEN a ELSE b

VARIABLES
    entry,        \* the entry point that runs
    credentials,  \* SUPABASE_URL and SUPABASE_KEY are both set
    \* ---- extract.py
    cities,       \* fetch_all_cities: the list of cities
    cityIdx,      \* fetch_all_cities: cities already fetched
    results,      \* fetch_all_cities: results
    epc,          \* fetch_all_cities: position
    city,         \* _fetch_city: city
    max_retries,  \* _fetch_city: max_retries
    attempt,      \* _fetch_city: attempt
    last_error,   \* _fetch_city: last_error
    fpc,          \* _fetch_city: position
    result,       \* _fetch_city: the value returned
    log,          \* _fetch_city: the GETs and sleeps of this call, in order
    written,      \* _fetch_city: the files this call wrote
    rawDir,       \* RAW_DIR: the files, in listing order
    \* ---- transform.py
    staged,       \* OUTPUT_FILE: whether it exists, its rows, who wrote it
    tpc,          \* transform_all: position
    \* ---- load.py (both pipelines)
    records,      \* load_to_supabase: the rows read from the staged file
    total,        \* load_to_supabase: total / total_rows
    batch_size,   \* load_to_supabase: batch_size
    i,            \* load_to_supabase: the offset of the current batch
    batch_num,    \* load_to_supabase: batch_num
    lattempt,     \* load_to_supabase: attempt (air-quality loader)
    lpc,          \* load_to_supabase: position
    loadLog,      \* the insert requests and the sleeps, in order
    table,        \* the rows of the store's table
    \* ---- run_pipeline.py
    rpc,          \* run_full_pipeline: position
    stages,       \* the stages begun and ended, in order
    schema,       \* what create_table_if_not_exists did
    \* ---- customer_churn_etl/scripts/validate.py
    original,     \* churn.csv: whether it exists, and its number of rows
    original_count, \* validate_data: original_count
    db_rows,      \* validate_data: db_rows
    vpc,          \* validate_data: position
    report        \* validate_data: what the validation summary printed

fetchVars == <<cities, cityIdx, results, epc, city, max_retries, attempt,
               last_error, fpc, result, log, written, rawDir>>
transformVars == <<staged, tpc>>
loadVars == <<records, total, batch_size, i, batch_num, lattempt, lpc, loadLog, table>>
runVars == <<rpc, stages, schema>>
validateVars == <<original, original_count, db_rows, vpc, report>>
beyondExtract == <<transformVars, loadVars, runVars>>
vars == <<entry, credentials, fetchVars, transformVars, loadVars, runVars, validateVars>>

(***************************************************************************)
(* extract.py                                                              *)
(***************************************************************************)

\* The bodies a 2xx response can carry.  resp.json() either parses the body
\* or raises ValueError, and then the payload is {"raw_text": resp.text}.
RawTextPayload == [kind |-> "raw_text"]

\* A value of an hourly series as the API delivers it: JSON null, a string
\* that is no number, or a number.
Null == [tag |-> "null", v |-> 0]
Str == [tag |-> "str", v |-> 0]
Num(n) == [tag |-> "num", v |-> n]
NaN == [tag |-> "nan", v |-> 0]

SampleNumbers == {0, 30}
RawValues == {Null, Str} \cup {Num(n) : n \in SampleNumbers}

\* transform.py:116-120
pollutant_cols == <<"pm10", "pm2_5", "carbon_monoxide", "nitrogen_dioxide",
                    "sulphur_dioxide", "ozone", "uv_index">>

\* One hour of the hourly structure: its time (in hours) and the seven series.
HourlyRow(t, f) ==
    [time |-> t, pm10 |-> f[1], pm2_5 |-> f[2], carbon_monoxide |-> f[3],
     nitrogen_dioxide |-> f[4], sulphur_dioxide |-> f[5], ozone |-> f[6],
     uv_index |-> f[7]]

AllRawRows == {HourlyRow(1, f) : f \in [1..7 -> RawValues]}

UniformRow(t, x) == HourlyRow(t, [k \in 1..7 |-> x])
OnlyRow(t, k, x) == HourlyRow(t, [j \in 1..7 |-> IF j = k THEN x ELSE Null])

HourlyPayload(rows) == [kind |-> "hourly", rows |-> rows]

SampleRowSeqs ==
    { <<>>,
      <<UniformRow(1, Null), OnlyRow(26, 1, Num(30))>>,
      <<UniformRow(3, Num(30)), UniformRow(4, Str)>> }

Payloads == {RawTextPayload} \cup {HourlyPayload(r) : r \in SampleRowSeqs}

\* What the two writes of _save_raw do.  open(path, "w") creates the file
\* before json.dump runs, so a failing dump leaves a truncated .json behind;
\* a failing open leaves nothing.
SaveOutcomes == {"json", "open_error_txt", "dump_error_txt",
                 "open_error_raise", "dump_error_raise"}

RawFile(c, ts, ext, content) ==
    [city |-> c, ts |-> ts, ext |-> ext, content |-> content]

Truncated == [kind |-> "truncated"]

\* extract.py:75-80: the fallback write is not guarded; when it fails as well
\* the exception leaves _save_raw.
SaveRaises(outcome) == outcome \in {"open_error_raise", "dump_error_raise"}

\* A _save_raw whose fallback returns the .json path.
save_raw_json_path(payload, c, ts, outcome) ==
    LET json == RawFile(c, ts, "json", payload)
        part == RawFile(c, ts, "json", Truncated)
        txt  == RawFile(c, ts, "txt", [kind |-> "repr", of |-> payload])
        path == [city |-> c, ts |-> ts, ext |-> "json"]
    IN CASE outcome = "json" -> [files |-> <<json>>, path |-> path]
         [] outcome = "open_error_txt" -> [files |-> <<txt>>, path |-> path]
         [] outcome = "dump_error_txt" -> [files |-> <<part, txt>>, path |-> path]
         [] outcome = "open_error_raise" -> [files |-> <<>>, path |-> None]
         [] outcome = "dump_error_raise" -> [files |-> <<part>>, path |-> None]

\* _save_raw(payload, city): the files written, and the path returned
\* (None when the fallback write raises as well).
save_raw(payload, c, ts, outcome) ==
    LET json == RawFile(c, ts, "json", payload)
        part == RawFile(c, ts, "json", Truncated)
        txt  == RawFile(c, ts, "txt", [kind |-> "repr", of |-> payload])
    IN CASE outcome = "json" ->
              [files |-> <<json>>, path |-> [city |-> c, ts |-> ts, ext |-> "json"]]
         [] outcome = "open_error_txt" ->
              [files |-> <<txt>>, path |-> [city |-> c, ts |-> ts, ext |-> "txt"]]
         [] outcome = "dump_error_txt" ->
              [files |-> <<part, txt>>, path |-> [city |-> c, ts |-> ts, ext |-> "txt"]]
         [] outcome = "open_error_raise" ->
              [files |-> <<>>, path |-> None]
         [] outcome = "dump_error_raise" ->
              [files |-> <<part>>, path |-> None]

PathOf(f) == [city |-> f.city, ts |-> f.ts, ext |-> f.ext]

\* The timestamp of a file name: the model's clock is the number of files
\* already in RAW_DIR, so that two calls never share a name.
now_ts == Len(rawDir) + 1

\* A backoff of 2 ** attempt.
BackoffDoubled(a) == Pow2(a)

\* extract.py:120
Backoff(a) == Pow2(a - 1)

\* A loop test of attempt <= max_retries.
MayAttemptInclusive == attempt <= max_retries

\* extract.py:100
MayAttempt == attempt < max_retries

\* last_error set by the first failure only.
NextLastErrorFirst(e) == IF last_error = None THEN e ELSE last_error

\* extract.py:116
NextLastError(e) == e

\* _fetch_city is entered: attempt = 0, last_error = None.
fetch_city_enter(c, mr) ==
    /\ city' = c
    /\ max_retries' = mr
    /\ attempt' = 0
    /\ last_error' = None
    /\ result' = None
    /\ log' = <<>>
    /\ written' = <<>>
    /\ fpc' = "loop"

\* One pass of the while loop in which requests.get or raise_for_status
\* raises a RequestException.
fetch_city_request_fails ==
    /\ fpc = "loop"
    /\ MayAttempt
    /\ \E e \in RequestErrors :
         /\ attempt' = attempt + 1
         /\ log' = Append(log, [ev |-> "get", attempt |-> attempt + 1, ok |-> FALSE, err |-> e])
         /\ last_error' = NextLastError(e)
         /\ fpc' = "backoff"
    /\ UNCHANGED <<entry, credentials, validateVars, beyondExtract, cities, cityIdx, results, epc, city,
                   max_retries, result, written, rawDir>>

\* The exponential backoff after a failed attempt (extract.py:119-122).
fetch_city_backoff ==
    /\ fpc = "backoff"
    /\ log' = Append(log, [ev |-> "sleep", attempt |-> attempt, secs |-> Backoff(attempt)])
    /\ fpc' = "loop"
    /\ UNCHANGED <<entry, credentials, validateVars, beyondExtract, cities, cityIdx, results, epc, city,
                   max_retries, attempt, last_error, result, written, rawDir>>

\* One pass of the while loop in which the request succeeds and _save_raw
\* returns a path: the call returns the success result.
fetch_city_saved ==
    /\ fpc = "loop"
    /\ MayAttempt
    /\ \E p \in Payloads, o \in {x \in SaveOutcomes : ~SaveRaises(x)} :
         LET s == save_raw(p, city, now_ts, o) IN
         /\ attempt' = attempt + 1
         /\ log' = Append(log, [ev |-> "get", attempt |-> attempt + 1, ok |-> TRUE, err |-> None])
         /\ written' = written \o s.files
         /\ rawDir' = rawDir \o s.files
         /\ result' = [city |-> city, success |-> "true", raw_path |-> s.path]
         /\ fpc' = "returned"
    /\ UNCHANGED <<entry, credentials, validateVars, beyondExtract, cities, cityIdx, results, epc, city,
                   max_retries, last_error>>

\* The request succeeds and the fallback write of _save_raw raises too: the
\* exception is no RequestException and leaves _fetch_city.
fetch_city_save_raises ==
    /\ fpc = "loop"
    /\ MayAttempt
    /\ \E p \in Payloads, o \in {x \in SaveOutcomes : SaveRaises(x)} :
         LET s == save_raw(p, city, now_ts, o) IN
         /\ attempt' = attempt + 1
         /\ log' = Append(log, [ev |-> "get", attempt |-> attempt + 1, ok |-> TRUE, err |-> None])
         /\ written' = written \o s.files
         /\ rawDir' = rawDir \o s.files
         /\ fpc' = "raised"
    /\ UNCHANGED <<entry, credentials, validateVars, beyondExtract, cities, cityIdx, results, epc, city,
                   max_retries, last_error, result>>

\* The while loop ends: all retries failed (extract.py:124-126).
fetch_city_exhausted ==
    /\ fpc = "loop"
    /\ ~MayAttempt
    /\ result' = [city |-> city, success |-> "false", error |-> last_error]
    /\ fpc' = "returned"
    /\ UNCHANGED <<entry, credentials, validateVars, beyondExtract, cities, cityIdx, results, epc, city,
                   max_retries, attempt, last_error, log, written, rawDir>>

\* fetch_all_cities: the next city of the list is fetched.
fetch_all_cities_call ==
    /\ entry \in {"extract", "runner"}
    /\ epc = "loop"
    /\ fpc \in {"idle"}
    /\ cityIdx < Len(cities)
    /\ fetch_city_enter(cities[cityIdx + 1], MAX_RETRIES)
    /\ UNCHANGED <<entry, credentials, validateVars, beyondExtract, cities, cityIdx, results, epc, rawDir>>

\* fetch_all_cities: _fetch_city returned; the result is appended.
fetch_all_cities_append ==
    /\ epc = "loop"
    /\ fpc = "returned"
    /\ results' = Append(results, result)
    /\ cityIdx' = cityIdx + 1
    /\ fpc' = "idle"
    /\ UNCHANGED <<entry, credentials, validateVars, beyondExtract, cities, epc, city, max_retries, attempt,
                   last_error, result, log, written, rawDir>>

\* fetch_all_cities: an exception left _fetch_city and leaves the loop.
fetch_all_cities_raise ==
    /\ epc = "loop"
    /\ fpc = "raised"
    /\ epc' = "raised"
    /\ fpc' = "idle"
    /\ UNCHANGED <<entry, credentials, validateVars, beyondExtract, cities, cityIdx, results, city, max_retries,
                   attempt, last_error, result, log, written, rawDir>>

\* fetch_all_cities: the list is exhausted; results is returned.
fetch_all_cities_return ==
    /\ epc = "loop"
    /\ fpc = "idle"
    /\ cityIdx = Len(cities)
    /\ epc' = "returned"
    /\ UNCHANGED <<entry, credentials, validateVars, beyondExtract, cities, cityIdx, results, city, max_retries,
                   attempt, last_error, fpc, result, log, written, rawDir>>

(***************************************************************************)
(* transform.py                                                            *)
(***************************************************************************)

IsNum(x) == x.tag = "num"

\* pd.to_numeric(errors="coerce") of one value: a number stays, anything
\* else becomes NaN.
to_numeric(x) == IF x.tag = "num" THEN x ELSE NaN

\* pd.notna
notna(x) == x.tag = "num"

\* Float arithmetic with NaN: an absent operand makes the result absent.
Times(x, n) == IF IsNum(x) THEN Num(x.v * n) ELSE NaN
Plus(x, y) == IF IsNum(x) /\ IsNum(y) THEN Num(x.v + y.v) ELSE NaN
\* A comparison with NaN is false.
Gt(x, n) == IsNum(x) /\ x.v > n
Le(x, n) == IsNum(x) /\ x.v <= n

Label(s) == [tag |-> "label", v |-> s]

\* transform.py:35-45
classify_aqi(pm25) ==
    IF Le(pm25, 50) THEN Label("Good")
    ELSE IF Le(pm25, 100) THEN Label("Moderate")
    ELSE IF Le(pm25, 200) THEN Label("Unhealthy")
    ELSE IF Le(pm25, 300) THEN Label("Very Unhealthy")
    ELSE Label("Hazardous")

\* A classify_risk that leaves the flag of an absent score absent.
classify_risk_absent(score) ==
    IF ~IsNum(score) THEN NaN
    ELSE IF Gt(score, 400) THEN Label("High Risk")
    ELSE IF Gt(score, 200) THEN Label("Moderate Risk")
    ELSE Label("Low Risk")

\* transform.py:51-57
classify_risk(score) ==
    IF Gt(score, 400) THEN Label("High Risk")
    ELSE IF Gt(score, 200) THEN Label("Moderate Risk")
    ELSE Label("Low Risk")

\* transform.py:63-89: the frame of one raw file (empty when the file has no
\* hourly times).
process_file(f) ==
    IF f.content.kind = "hourly"
    THEN [k \in 1..Len(f.content.rows) |->
            [city |-> f.city] @@ f.content.rows[k]]
    ELSE <<>>

\* json.load raises on a file that holds no complete JSON document.
Unreadable(f) == f.content.kind = "truncated"

\* RAW_DIR.glob("*.json")
GlobJson(dir) == SelectSeq(dir, LAMBDA f : f.ext = "json")

\* transform.py:111: the non-empty frames, concatenated.
RECURSIVE ConcatFrames(_)
ConcatFrames(files) ==
    IF files = <<>> THEN <<>>
    ELSE process_file(Head(files)) \o ConcatFrames(Tail(files))

\* transform.py:122-123
Coerce(r) ==
    [r EXCEPT !.pm10 = to_numeric(@), !.pm2_5 = to_numeric(@),
              !.carbon_monoxide = to_numeric(@), !.nitrogen_dioxide = to_numeric(@),
              !.sulphur_dioxide = to_numeric(@), !.ozone = to_numeric(@),
              !.uv_index = to_numeric(@)]

\* A dropna(how="any").
KeptByDropnaAny(r) == \A k \in 1..7 : r[pollutant_cols[k]].tag = "num"

\* transform.py:128: dropna(subset=pollutant_cols, how="all") keeps a row
\* unless every one of the seven columns is NaN.
KeptByDropna(r) == \E k \in 1..Len(pollutant_cols) : notna(r[pollutant_cols[k]])

\* transform.py:135-142
severity_score(r) ==
    Plus(Plus(Plus(Plus(Plus(Times(r.pm2_5, 5), Times(r.pm10, 3)),
                             Times(r.nitrogen_dioxide, 4)),
                        Times(r.sulphur_dioxide, 4)),
                   Times(r.carbon_monoxide, 2)),
         Times(r.ozone, 3))

\* transform.py:133-147
Derive(r) ==
    r @@ [aqi_category |-> IF notna(r.pm2_5) THEN classify_aqi(r.pm2_5) ELSE NaN,
          severity_score |-> severity_score(r),
          risk_flag |-> classify_risk(severity_score(r)),
          hour |-> r.time % 24]

\* transform.py:111-147: the table written to OUTPUT_FILE.
StagedTable(files) ==
    LET df == ConcatFrames(files)
        numeric == [k \in 1..Len(df) |-> Coerce(df[k])]
        kept == SelectSeq(numeric, KeptByDropna)
    IN [k \in 1..Len(kept) |-> Derive(kept[k])]

\* transform.py:107
NoFrames(files) == \A k \in 1..Len(files) : process_file(files[k]) = <<>>

NoStaged == [exists |-> FALSE, rows |-> <<>>, by |-> "nobody", writes |-> 0]

\* transform_all: a raw file cannot be parsed and json.load raises.
transform_all_raises ==
    /\ tpc = "start"
    /\ \E k \in 1..Len(GlobJson(rawDir)) : Unreadable(GlobJson(rawDir)[k])
    /\ tpc' = "raised"
    /\ UNCHANGED <<entry, credentials, validateVars, fetchVars, staged, loadVars, runVars>>

\* transform_all: no raw file yields a frame; nothing is written
\* (transform.py:107-109).
transform_all_no_input ==
    /\ tpc = "start"
    /\ \A k \in 1..Len(GlobJson(rawDir)) : ~Unreadable(GlobJson(rawDir)[k])
    /\ NoFrames(GlobJson(rawDir))
    /\ tpc' = "returned"
    /\ UNCHANGED <<entry, credentials, validateVars, fetchVars, staged, loadVars, runVars>>

\* transform_all: the frames are cleaned, the derived columns are added and
\* the table is written over OUTPUT_FILE.
transform_all_writes ==
    /\ tpc = "start"
    /\ \A k \in 1..Len(GlobJson(rawDir)) : ~Unreadable(GlobJson(rawDir)[k])
    /\ ~NoFrames(GlobJson(rawDir))
    /\ staged' = [exists |-> TRUE, rows |-> StagedTable(GlobJson(rawDir)),
                  by |-> "this run", writes |-> staged.writes + 1]
    /\ tpc' = "returned"
    /\ UNCHANGED <<entry, credentials, validateVars, fetchVars, loadVars, runVars>>

(***************************************************************************)
(* ETL_AirQuality_API/load.py                                              *)
(***************************************************************************)

NoneValue == [tag |-> "none", v |-> 0]

\* What a cell of the staged CSV becomes in a record: to_csv writes NaN and
\* None as an empty field, read_csv reads an empty field as NaN, and
\* df.where(pd.notnull(df), None) turns NaN into None.
CsvCell(x) == IF x.tag \in {"nan", "none"} THEN NoneValue ELSE x

\* load.py:75-82 and load.py:90-96: the records of the staged CSV; the time
\* column becomes a string.
read_staged_csv(rows) ==
    [k \in 1..Len(rows) |->
        LET r == rows[k] IN
        [city |-> r.city, time |-> [tag |-> "isostr", v |-> r.time],
         pm10 |-> CsvCell(r.pm10), pm2_5 |-> CsvCell(r.pm2_5),
         carbon_monoxide |-> CsvCell(r.carbon_monoxide),
         nitrogen_dioxide |-> CsvCell(r.nitrogen_dioxide),
         sulphur_dioxide |-> CsvCell(r.sulphur_dioxide),
         ozone |-> CsvCell(r.ozone), uv_index |-> CsvCell(r.uv_index),
         aqi_category |-> CsvCell(r.aqi_category),
         severity_score |-> CsvCell(r.severity_score),
         risk_flag |-> CsvCell(r.risk_flag), hour |-> r.hour]]

\* A slice records[i:i + batch_size + 1].
SliceInclusive(recs, from, size) == SubSeq(recs, from + 1, Min(from + size + 1, Len(recs)))

\* records[i:i + batch_size]
Slice(recs, from, size) == SubSeq(recs, from + 1, Min(from + size, Len(recs)))

\* range(0, total, batch_size): the offset after i.
NextOffset(from, size) == from + size

\* A retry loop of range(1, 4).
HasNextAttemptThree(a) == a < LOAD_ATTEMPTS + 1

\* range(1, 3): whether another attempt follows attempt a.
HasNextAttempt(a) == a < LOAD_ATTEMPTS

InsertEvent(n, rows, a, outcome) ==
    [ev |-> "insert", batch_num |-> n, rows |-> rows, attempt |-> a, outcome |-> outcome]

\* A loader that takes a missing staged file for an empty one.
load_to_supabase_missing_proceeds ==
    /\ entry \in {"air_load", "runner"}
    /\ lpc = "start"
    /\ credentials
    /\ ~staged.exists
    /\ records' = <<>>
    /\ total' = 0
    /\ batch_num' = 1
    /\ i' = 0
    /\ lpc' = "loop"
    /\ UNCHANGED <<entry, credentials, validateVars, fetchVars, transformVars, runVars, batch_size,
                   lattempt, loadLog, table>>

\* load.py:29-33: importing load without the credentials ends the process.
load_import_exits ==
    /\ entry = "air_load"
    /\ lpc = "start"
    /\ ~credentials
    /\ lpc' = "SystemExit"
    /\ UNCHANGED <<entry, credentials, validateVars, fetchVars, transformVars, runVars, records, total,
                   batch_size, i, batch_num, lattempt, loadLog, table>>

\* load.py:85-88: the staged file is missing.
load_to_supabase_missing ==
    /\ entry \in {"air_load", "runner"}
    /\ lpc = "start"
    /\ credentials
    /\ ~staged.exists
    /\ lpc' = "FileNotFoundError"
    /\ UNCHANGED <<entry, credentials, validateVars, fetchVars, transformVars, runVars, records, total,
                   batch_size, i, batch_num, lattempt, loadLog, table>>

\* load.py:90-98: the staged file is read.
load_to_supabase_read ==
    /\ entry \in {"air_load", "runner"}
    /\ lpc = "start"
    /\ credentials
    /\ staged.exists
    /\ records' = read_staged_csv(staged.rows)
    /\ total' = Len(staged.rows)
    /\ batch_num' = 1
    /\ i' = 0
    /\ lpc' = "loop"
    /\ UNCHANGED <<entry, credentials, validateVars, fetchVars, transformVars, runVars, batch_size,
                   lattempt, loadLog, table>>

\* load.py:100-103: the next batch.
load_to_supabase_batch ==
    /\ entry \in {"air_load", "runner"}
    /\ lpc = "loop"
    /\ i < total
    /\ lattempt' = 1
    /\ lpc' = "insert"
    /\ UNCHANGED <<entry, credentials, validateVars, fetchVars, transformVars, runVars, records, total,
                   batch_size, i, batch_num, loadLog, table>>

\* load.py:104-107: the insert succeeds; break.
load_to_supabase_inserted ==
    /\ entry \in {"air_load", "runner"}
    /\ lpc = "insert"
    /\ LET batch == Slice(records, i, batch_size) IN
         /\ table' = table \o batch
         /\ loadLog' = Append(loadLog, InsertEvent(batch_num, batch, lattempt, "inserted"))
    /\ batch_num' = batch_num + 1
    /\ i' = NextOffset(i, batch_size)
    /\ lpc' = "loop"
    /\ UNCHANGED <<entry, credentials, validateVars, fetchVars, transformVars, runVars, records, total,
                   batch_size, lattempt>>

\* load.py:108-110: the insert raises; sleep(2).
load_to_supabase_failed ==
    /\ entry \in {"air_load", "runner"}
    /\ lpc = "insert"
    /\ loadLog' = loadLog \o
         << InsertEvent(batch_num, Slice(records, i, batch_size), lattempt, "raised"),
            [ev |-> "sleep", batch_num |-> batch_num, attempt |-> lattempt,
             secs |-> LOAD_RETRY_SLEEP] >>
    /\ lpc' = "failed"
    /\ UNCHANGED <<entry, credentials, validateVars, fetchVars, transformVars, runVars, records, total,
                   batch_size, i, batch_num, lattempt, table>>

\* load.py:103: the next attempt at the same batch.
load_to_supabase_retry ==
    /\ entry \in {"air_load", "runner"}
    /\ lpc = "failed"
    /\ HasNextAttempt(lattempt)
    /\ lattempt' = lattempt + 1
    /\ lpc' = "insert"
    /\ UNCHANGED <<entry, credentials, validateVars, fetchVars, transformVars, runVars, records, total,
                   batch_size, i, batch_num, loadLog, table>>

\* A loader that gives up the load with the batch.
load_to_supabase_skip_aborts ==
    /\ entry \in {"air_load", "runner"}
    /\ lpc = "failed"
    /\ ~HasNextAttempt(lattempt)
    /\ loadLog' = Append(loadLog, [ev |-> "skip", batch_num |-> batch_num])
    /\ lpc' = "aborted"
    /\ UNCHANGED <<entry, credentials, validateVars, fetchVars, transformVars, runVars, records, total,
                   batch_size, i, batch_num, lattempt, table>>

\* load.py:111-114: the attempts are used up; the batch is skipped.
load_to_supabase_skip ==
    /\ entry \in {"air_load", "runner"}
    /\ lpc = "failed"
    /\ ~HasNextAttempt(lattempt)
    /\ loadLog' = Append(loadLog, [ev |-> "skip", batch_num |-> batch_num])
    /\ batch_num' = batch_num + 1
    /\ i' = NextOffset(i, batch_size)
    /\ lpc' = "loop"
    /\ UNCHANGED <<entry, credentials, validateVars, fetchVars, transformVars, runVars, records, total,
                   batch_size, lattempt, table>>

\* load.py:116: "Load complete!"
load_to_supabase_complete ==
    /\ entry \in {"air_load", "runner"}
    /\ lpc = "loop"
    /\ i >= total
    /\ lpc' = "complete"
    /\ UNCHANGED <<entry, credentials, validateVars, fetchVars, transformVars, runVars, records, total,
                   batch_size, i, batch_num, lattempt, loadLog, table>>

(***************************************************************************)
(* customer_churn_etl/scripts                                              *)
(***************************************************************************)

\* transform.py:28-32 of the churn pipeline: pd.cut(tenure,
\* bins=[0, 12, 36, 60, inf], right=True); a tenure outside (0, inf) has no
\* bin.
tenure_group(tenure) ==
    IF tenure <= 0 THEN NaN
    ELSE IF tenure <= 12 THEN Label("New")
    ELSE IF tenure <= 36 THEN Label("Regular")
    ELSE IF tenure <= 60 THEN Label("Loyal")
    ELSE Label("Champion")

\* A row of churn_transformed.csv.
ChurnStagedRow(tenure) ==
    [tenure |-> tenure, MonthlyCharges |-> Num(30), tenure_group |-> tenure_group(tenure)]

\* load.py:79-83 of the churn pipeline: the column names in lower case,
\* NaN as None.
churn_records(rows) ==
    [k \in 1..Len(rows) |->
        [tenure |-> rows[k].tenure,
         monthlycharges |-> CsvCell(rows[k].MonthlyCharges),
         tenure_group |-> CsvCell(rows[k].tenure_group)]]

\* load.py:69-72: the staged file is missing; the function reports and returns.
churn_load_missing ==
    /\ entry = "churn_load"
    /\ lpc = "start"
    /\ ~staged.exists
    /\ lpc' = "returned"
    /\ UNCHANGED <<entry, credentials, validateVars, fetchVars, transformVars, runVars, records, total,
                   batch_size, i, batch_num, lattempt, loadLog, table>>

\* load.py:75 and 110-111: get_supabase_client raises ValueError, which the
\* outer except reports.
churn_load_no_client ==
    /\ entry = "churn_load"
    /\ lpc = "start"
    /\ staged.exists
    /\ ~credentials
    /\ lpc' = "error"
    /\ UNCHANGED <<entry, credentials, validateVars, fetchVars, transformVars, runVars, records, total,
                   batch_size, i, batch_num, lattempt, loadLog, table>>

\* load.py:77-86: the staged file is read.
churn_load_read ==
    /\ entry = "churn_load"
    /\ lpc = "start"
    /\ staged.exists
    /\ credentials
    /\ records' = churn_records(staged.rows)
    /\ batch_size' = BATCH_SIZE
    /\ total' = Len(staged.rows)
    /\ i' = 0
    /\ lpc' = "loop"
    /\ UNCHANGED <<entry, credentials, validateVars, fetchVars, transformVars, runVars, batch_num,
                   lattempt, loadLog, table>>

\* load.py:90-106: one batch; the insert succeeds, answers with an error, or
\* raises, and the loop goes on in every case.
churn_load_batch ==
    /\ entry = "churn_load"
    /\ lpc = "loop"
    /\ i < total
    /\ \E outcome \in {"inserted", "response_error", "raised"} :
         LET batch == Slice(records, i, batch_size) IN
         /\ loadLog' = Append(loadLog, InsertEvent((i \div batch_size) + 1, batch, 1, outcome))
         /\ table' = IF outcome = "inserted" THEN table \o batch ELSE table
    /\ i' = NextOffset(i, batch_size)
    /\ UNCHANGED <<entry, credentials, validateVars, fetchVars, transformVars, runVars, records, total,
                   batch_size, batch_num, lattempt, lpc>>

\* load.py:108: "Finished loading data"
churn_load_finished ==
    /\ entry = "churn_load"
    /\ lpc = "loop"
    /\ i >= total
    /\ lpc' = "complete"
    /\ UNCHANGED <<entry, credentials, validateVars, fetchVars, transformVars, runVars, records, total,
                   batch_size, i, batch_num, lattempt, loadLog, table>>

(***************************************************************************)
(* customer_churn_etl/scripts/validate.py                                  *)
(***************************************************************************)

NoOriginal == [exists |-> FALSE, rows |-> 0]

NoReport ==
    [original_rows |-> 0, supabase_rows |-> 0, unique_rows |-> 0,
     row_count |-> "not reported", tenure_group_valid |-> "not reported"]

\* A db_count that counts the distinct rows.
db_count_unique(rows) == Cardinality({rows[k] : k \in 1..Len(rows)})

\* validate.py:44-45: db_count = len(pd.DataFrame(db_rows))
db_count(rows) == Len(rows)

\* validate.py:56: len(df_db.drop_duplicates())
unique_rows(rows) == Cardinality({rows[k] : k \in 1..Len(rows)})

\* df_db.columns: the keys of the rows; a frame of no rows has no columns.
Columns(rows) == IF rows = <<>> THEN {} ELSE DOMAIN rows[1]

\* An expected set of the labels the transformer writes.
expected_tenure_groups_of_transformer ==
    {Label("New"), Label("Regular"), Label("Loyal"), Label("Champion")}

\* validate.py:58
expected_tenure_groups ==
    {Label("0-12"), Label("13-24"), Label("25-48"), Label("49-72"), Label("73+")}

\* validate.py:61-65
tenure_group_valid(rows) ==
    IF "tenure_group" \in Columns(rows)
    THEN {rows[k].tenure_group : k \in 1..Len(rows)} \subseteq expected_tenure_groups
    ELSE TRUE

\* validate.py:87-90
RowCountMessage(db, orig) ==
    IF db = orig THEN "Row count matches original dataset" ELSE "Row count mismatch"

\* print(f"tenure_group valid: {tenure_group_valid}")
PyBool(b) == IF b THEN "True" ELSE "False"

\* validate.py:99-100: python validate.py is run once the churn loader ended.
validate_after_load ==
    /\ entry = "churn_load"
    /\ lpc \in {"complete", "returned", "error"}
    /\ vpc = "idle"
    /\ vpc' = "start"
    /\ UNCHANGED <<entry, credentials, fetchVars, transformVars, loadVars, runVars,
                   original, original_count, db_rows, report>>

\* validate.py:32-34: the original CSV is missing; nothing is validated.
validate_data_missing ==
    /\ vpc = "start"
    /\ ~original.exists
    /\ vpc' = "returned"
    /\ UNCHANGED <<entry, credentials, fetchVars, transformVars, loadVars, runVars,
                   original, original_count, db_rows, report>>

\* validate.py:36 and 16-17: get_supabase_client raises ValueError.
validate_data_no_client ==
    /\ vpc = "start"
    /\ original.exists
    /\ ~credentials
    /\ vpc' = "ValueError"
    /\ UNCHANGED <<entry, credentials, fetchVars, transformVars, loadVars, runVars,
                   original, original_count, db_rows, report>>

\* validate.py:36-47: the original CSV is counted and the rows of the table
\* are selected.
validate_data_fetch ==
    /\ vpc = "start"
    /\ original.exists
    /\ credentials
    /\ original_count' = original.rows
    /\ db_rows' = table
    /\ vpc' = "fetched"
    /\ UNCHANGED <<entry, credentials, fetchVars, transformVars, loadVars, runVars,
                   original, report>>

\* validate.py:48-97: the checks on the fetched rows and the validation
\* summary.
validate_data_summary ==
    /\ vpc = "fetched"
    /\ report' = [original_rows |-> original_count,
                  supabase_rows |-> db_count(db_rows),
                  unique_rows |-> unique_rows(db_rows),
                  row_count |-> RowCountMessage(db_count(db_rows), original_count),
                  tenure_group_valid |-> PyBool(tenure_group_valid(db_rows))]
    /\ vpc' = "completed"
    /\ UNCHANGED <<entry, credentials, fetchVars, transformVars, loadVars, runVars,
                   original, original_count, db_rows>>

(***************************************************************************)
(* ETL_AirQuality_API/run_pipeline.py                                      *)
(***************************************************************************)

Begin(st) == <<st, "begin">>
End(st) == <<st, "end">>

\* load.py:29-33 and etl_analysis.py:22-26: importing load or etl_analysis
\* without the credentials ends the process before any stage.
run_import_exits ==
    /\ entry = "runner"
    /\ rpc = "start"
    /\ ~credentials
    /\ rpc' = "SystemExit"
    /\ UNCHANGED <<entry, credentials, validateVars, fetchVars, transformVars, loadVars, stages, schema>>

\* run_pipeline.py:28: fetch_all_cities() is called.
run_extract ==
    /\ entry = "runner"
    /\ rpc = "start"
    /\ credentials
    /\ stages' = Append(stages, Begin("Extract"))
    /\ epc' = "loop"
    /\ rpc' = "extract"
    /\ UNCHANGED <<entry, credentials, validateVars, cities, cityIdx, results, city, max_retries,
                   attempt, last_error, fpc, result, log, written, rawDir,
                   transformVars, loadVars, schema>>

\* run_pipeline.py:29-36: fetch_all_cities returned; transform_all() is called.
run_transform ==
    /\ entry = "runner"
    /\ rpc = "extract"
    /\ epc = "returned"
    /\ stages' = stages \o <<End("Extract"), Begin("Transform")>>
    /\ tpc' = "start"
    /\ rpc' = "transform"
    /\ UNCHANGED <<entry, credentials, validateVars, fetchVars, staged, loadVars, schema>>

\* An exception leaves fetch_all_cities or transform_all and ends the run.
run_stage_raised ==
    /\ entry = "runner"
    /\ \/ rpc = "extract" /\ epc = "raised"
       \/ rpc = "transform" /\ tpc = "raised"
    /\ rpc' = "raised"
    /\ UNCHANGED <<entry, credentials, validateVars, fetchVars, transformVars, loadVars, stages, schema>>

\* run_pipeline.py:38-41: the staged file is missing after transform_all.
run_staged_missing ==
    /\ entry = "runner"
    /\ rpc = "transform"
    /\ tpc = "returned"
    /\ ~staged.exists
    /\ stages' = Append(stages, End("Transform"))
    /\ rpc' = "FileNotFoundError"
    /\ UNCHANGED <<entry, credentials, validateVars, fetchVars, transformVars, loadVars, schema>>

\* A runner that loads before it ensures the schema.
run_load_before_schema ==
    /\ entry = "runner"
    /\ rpc = "transform"
    /\ tpc = "returned"
    /\ staged.exists
    /\ stages' = stages \o <<End("Transform"), Begin("Load")>>
    /\ batch_size' = BATCH_SIZE
    /\ lpc' = "start"
    /\ rpc' = "load"
    /\ UNCHANGED <<entry, credentials, validateVars, fetchVars, transformVars, records, total, i,
                   batch_num, lattempt, loadLog, table, schema>>

\* run_pipeline.py:43-51 and load.py:60-72: create_table_if_not_exists() runs
\* (the RPC is executed, or it raises and the SQL is printed), and
\* load_to_supabase(staged_csv_path, batch_size=200) is called.
run_load ==
    /\ entry = "runner"
    /\ rpc = "transform"
    /\ tpc = "returned"
    /\ staged.exists
    /\ \E how \in {"rpc executed", "sql printed"} : schema' = how
    /\ stages' = stages \o <<End("Transform"), Begin("Schema"), End("Schema"), Begin("Load")>>
    /\ batch_size' = BATCH_SIZE
    /\ lpc' = "start"
    /\ rpc' = "load"
    /\ UNCHANGED <<entry, credentials, validateVars, fetchVars, transformVars, records, total, i,
                   batch_num, lattempt, loadLog, table>>

\* run_pipeline.py:53-61 and etl_analysis.py:36-41: run_analysis() is called;
\* fetch_data ends the process when the table holds no row.
run_analysis ==
    /\ entry = "runner"
    /\ rpc = "load"
    /\ lpc = "complete"
    /\ IF table = <<>>
       THEN /\ stages' = stages \o <<End("Load"), Begin("Analysis")>>
            /\ rpc' = "SystemExit"
       ELSE /\ stages' = stages \o <<End("Load"), Begin("Analysis"), End("Analysis")>>
            /\ rpc' = "completed"
    /\ UNCHANGED <<entry, credentials, validateVars, fetchVars, transformVars, loadVars, schema>>

(***************************************************************************)
(* The initial states, one group for every entry point.                    *)
(***************************************************************************)

CityLists == {SubSeq(DEFAULT_CITIES, 1, n) : n \in 0..MaxCities}

RunIdle == rpc = "idle" /\ stages = <<>> /\ schema = "untouched"

ValidateIdle ==
    /\ original = NoOriginal /\ original_count = 0 /\ db_rows = <<>>
    /\ vpc = "idle" /\ report = NoReport

LoadIdle ==
    /\ records = <<>> /\ total = 0 /\ batch_size = 0 /\ i = 0 /\ batch_num = 0
    /\ lattempt = 0 /\ lpc = "idle" /\ loadLog = <<>> /\ table = <<>>

FetchIdle ==
    /\ cities = <<>> /\ cityIdx = 0 /\ results = <<>> /\ epc = "idle"
    /\ city = None /\ max_retries = 0 /\ attempt = 0 /\ last_error = None
    /\ fpc = "idle" /\ result = None /\ log = <<>> /\ written = <<>>

InitFetchCity ==
    /\ entry = "fetch_city"
    /\ credentials = TRUE
    /\ cities = <<>> /\ cityIdx = 0 /\ results = <<>> /\ epc = "idle"
    /\ city \in {DEFAULT_CITIES[1]}
    /\ max_retries \in 0..MaxRetriesArg
    /\ attempt = 0 /\ last_error = None /\ fpc = "loop" /\ result = None
    /\ log = <<>> /\ written = <<>>
    /\ rawDir = <<>>
    /\ staged = NoStaged /\ tpc = "idle"
    /\ LoadIdle
    /\ RunIdle
    /\ ValidateIdle

InitExtract ==
    /\ entry = "extract"
    /\ credentials = TRUE
    /\ cities \in CityLists
    /\ cityIdx = 0 /\ results = <<>> /\ epc = "loop"
    /\ city = None /\ max_retries = 0 /\ attempt = 0 /\ last_error = None
    /\ fpc = "idle" /\ result = None /\ log = <<>> /\ written = <<>>
    /\ rawDir = <<>>
    /\ staged = NoStaged /\ tpc = "idle"
    /\ LoadIdle
    /\ RunIdle
    /\ ValidateIdle

\* The raw files a run of transform.py can find.
SampleFiles ==
    {RawFile(DEFAULT_CITIES[1], 1, "json", p) : p \in Payloads}
      \cup {RawFile(DEFAULT_CITIES[1], 1, "json", Truncated),
            RawFile(DEFAULT_CITIES[2], 1, "txt", [kind |-> "repr", of |-> RawTextPayload])}

SampleDirs ==
    UNION {[1..n -> SampleFiles] : n \in 0..MaxFiles}
      \cup {<<RawFile(DEFAULT_CITIES[1], 1, "json", HourlyPayload(<<r>>))>> : r \in AllRawRows}

\* OUTPUT_FILE as an earlier run left it.
PriorStaged ==
    {NoStaged,
     [exists |-> TRUE, rows |-> <<Derive(Coerce([city |-> "Kolkata"] @@ UniformRow(5, Num(0))))>>,
      by |-> "earlier run", writes |-> 0]}

InitTransform ==
    /\ entry = "transform"
    /\ credentials = TRUE
    /\ FetchIdle
    /\ rawDir \in SampleDirs
    /\ staged \in PriorStaged
    /\ tpc = "start"
    /\ LoadIdle
    /\ RunIdle
    /\ ValidateIdle

\* A staged table of n rows as transform.py writes it.
AirStaged(n) ==
    [exists |-> TRUE,
     rows |-> [k \in 1..n |-> Derive(Coerce([city |-> "Delhi"] @@ UniformRow(k, Num(30))))],
     by |-> "earlier run", writes |-> 0]

ChurnStaged(n) ==
    [exists |-> TRUE, rows |-> [k \in 1..n |-> ChurnStagedRow(k - 1)],
     by |-> "earlier run", writes |-> 0]

\* The (rows, batch_size) pairs of the loader runs: the small ones, and the
\* large tables with the default batch size.
LargeTables == {200, 201, 450}
LoadConfigs ==
    ((0..MaxRows) \X (1..MaxBatch)) \cup (((0..MaxRows) \cup LargeTables) \X {BATCH_SIZE})

InitAirLoad ==
    /\ entry = "air_load"
    /\ credentials \in BOOLEAN
    /\ FetchIdle /\ rawDir = <<>> /\ tpc = "idle"
    /\ \E c \in LoadConfigs :
         /\ staged \in {NoStaged, AirStaged(c[1])}
         /\ batch_size = c[2]
    /\ records = <<>> /\ total = 0 /\ i = 0 /\ batch_num = 0 /\ lattempt = 0
    /\ lpc = "start" /\ loadLog = <<>> /\ table = <<>>
    /\ RunIdle
    /\ ValidateIdle

InitChurnLoad ==
    /\ entry = "churn_load"
    /\ credentials \in BOOLEAN
    /\ FetchIdle /\ rawDir = <<>> /\ tpc = "idle"
    /\ staged \in {NoStaged} \cup {ChurnStaged(n) : n \in (0..MaxRows) \cup LargeTables}
    /\ batch_size = 0
    /\ records = <<>> /\ total = 0 /\ i = 0 /\ batch_num = 0 /\ lattempt = 0
    /\ lpc = "start" /\ loadLog = <<>> /\ table = <<>>
    /\ RunIdle
    /\ original \in {NoOriginal} \cup {[exists |-> TRUE, rows |-> Len(staged.rows)]}
    /\ original_count = 0 /\ db_rows = <<>> /\ vpc = "idle" /\ report = NoReport

\* A row of the churn_data table.
ChurnStoreRow(tenure, group) ==
    [tenure |-> tenure, monthlycharges |-> Num(30), tenure_group |-> group]

\* The tenures at the edges of the bins of transform.py:30.
SampleTenures == {0, 1, 12, 13, 36, 37, 60, 61}

\* The tables validate.py can find: the staged file loaded once, loaded
\* twice or loaded in part, one row of each tenure group, and a table that
\* another writer filled with a label of the validator's expected set.
\* The staged file, which transform_data writes with one row for every row
\* of the original CSV, is still in its place.
StoreSamples ==
    {churn_records(ChurnStaged(n).rows) : n \in 0..MaxRows}
      \cup {churn_records(ChurnStaged(n).rows) \o churn_records(ChurnStaged(n).rows) :
               n \in 1..MaxRows}
      \cup {churn_records(<<ChurnStagedRow(t)>>) : t \in SampleTenures}
      \cup {<<ChurnStoreRow(5, Label("0-12"))>>}

InitValidate ==
    /\ entry = "validate"
    /\ credentials \in BOOLEAN
    /\ FetchIdle /\ rawDir = <<>>
    /\ original \in {NoOriginal} \cup {[exists |-> TRUE, rows |-> n] : n \in 0..MaxRows}
    /\ staged = ChurnStaged(original.rows) /\ tpc = "idle"
    /\ records = <<>> /\ total = 0 /\ batch_size = 0 /\ i = 0 /\ batch_num = 0
    /\ lattempt = 0 /\ lpc = "idle" /\ loadLog = <<>>
    /\ table \in StoreSamples
    /\ RunIdle
    /\ original_count = 0 /\ db_rows = <<>> /\ vpc = "start" /\ report = NoReport

\* RAW_DIR as earlier runs left it.
PriorRawDirs ==
    {<<>>, <<RawFile(DEFAULT_CITIES[5], 0, "json",
                     HourlyPayload(<<UniformRow(7, Num(30)), UniformRow(8, Null)>>))>>}

InitRunner ==
    /\ entry = "runner"
    /\ credentials \in BOOLEAN
    /\ cities = SubSeq(DEFAULT_CITIES, 1, MaxCities)
    /\ cityIdx = 0 /\ results = <<>> /\ epc = "idle"
    /\ city = None /\ max_retries = 0 /\ attempt = 0 /\ last_error = None
    /\ fpc = "idle" /\ result = None /\ log = <<>> /\ written = <<>>
    /\ rawDir \in PriorRawDirs
    /\ staged \in PriorStaged
    /\ tpc = "idle"
    /\ LoadIdle
    /\ ValidateIdle
    /\ rpc = "start" /\ stages = <<>> /\ schema = "untouched"

Init ==
    \/ InitFetchCity
    \/ InitExtract
    \/ InitTransform
    \/ InitAirLoad
    \/ InitChurnLoad
    \/ InitValidate
    \/ InitRunner

Next ==
    \/ fetch_city_request_fails
    \/ fetch_city_backoff
    \/ fetch_city_saved
    \/ fetch_city_save_raises
    \/ fetch_city_exhausted
    \/ fetch_all_cities_call
    \/ fetch_all_cities_append
    \/ fetch_all_cities_raise
    \/ fetch_all_cities_return
    \/ transform_all_raises
    \/ transform_all_no_input
    \/ transform_all_writes
    \/ load_to_supabase_missing
    \/ load_to_supabase_read
    \/ load_to_supabase_batch
    \/ load_to_supabase_inserted
    \/ load_to_supabase_failed
    \/ load_to_supabase_retry
    \/ load_to_supabase_skip
    \/ load_to_supabase_complete
    \/ load_import_exits
    \/ churn_load_missing
    \/ churn_load_no_client
    \/ churn_load_read
    \/ churn_load_batch
    \/ churn_load_finished
    \/ validate_after_load
    \/ validate_data_missing
    \/ validate_data_no_client
    \/ validate_data_fetch
    \/ validate_data_summary
    \/ run_import_exits
    \/ run_extract
    \/ run_transform
    \/ run_stage_raised
    \/ run_staged_missing
    \/ run_load
    \/ run_analysis

Spec == Init /\ [][Next]_vars

\* The calls of the two load_to_supabase functions alone.
LoadInit == InitAirLoad \/ InitChurnLoad

LoadNext ==
    \/ load_import_exits
    \/ load_to_supabase_missing
    \/ load_to_supabase_read
    \/ load_to_supabase_batch
    \/ load_to_supabase_inserted
    \/ load_to_supabase_failed
    \/ load_to_supabase_retry
    \/ load_to_supabase_skip
    \/ load_to_supabase_complete
    \/ churn_load_missing
    \/ churn_load_no_client
    \/ churn_load_read
    \/ churn_load_batch
    \/ churn_load_finished

\* The program is sequential and every step of it ends (an insert returns or
\* raises, a sleep is finite): a step that can be taken is taken.
FairLoadSpec == LoadInit /\ [][LoadNext]_vars /\ WF_vars(LoadNext)

(***************************************************************************)
(* The claims about _fetch_city.                                           *)
(***************************************************************************)

Gets == SelectSeq(log, LAMBDA e : e.ev = "get")
Sleeps == SelectSeq(log, LAMBDA e : e.ev = "sleep")
SleptTotal == SumSeq([k \in 1..Len(Sleeps) |-> Sleeps[k].secs])

\* sum of 2^(a-1) over a = 1..n
RECURSIVE SumOfBackoffs(_)
SumOfBackoffs(n) == IF n <= 0 THEN 0 ELSE Pow2(n - 1) + SumOfBackoffs(n - 1)

\* The delay slept right before the event at position idx of the log.
DelayBefore(idx) ==
    IF idx > 1 /\ log[idx - 1].ev = "sleep" THEN log[idx - 1].secs ELSE 0

\* C1: a call of _fetch_city issues at most max_retries GET requests, and no
\* request follows the first successful one.
C1_RequestsBounded ==
    /\ Len(Gets) <= max_retries
    /\ \A k \in 1..Len(Gets) : Gets[k].attempt = k
    /\ \A k \in 1..Len(Gets) : Gets[k].ok => k = Len(Gets)
    /\ \A k \in 1..Len(log) :
         (log[k].ev = "get" /\ log[k].ok) => k = Len(log)

\* A call that used all its max_retries >= 2 requests and succeeded with the
\* last one.
C1_Witness ==
    /\ entry = "fetch_city"
    /\ fpc = "returned"
    /\ max_retries >= 2
    /\ Len(Gets) = max_retries
    /\ Gets[Len(Gets)].ok

\* C2 as stated: the delay slept before attempt k is 2^(k-1) seconds, for
\* every attempt k >= 1 that is made.
C2_DelayBeforeAttempt ==
    \A idx \in 1..Len(log) :
        log[idx].ev = "get" => DelayBefore(idx) = Pow2(log[idx].attempt - 1)

\* C2, amended: the delay slept after the failed attempt k is 2^(k-1)
\* seconds; so nothing is slept before attempt 1, and the delay before
\* attempt k >= 2 is 2^(k-2) seconds.
C2_DelayAfterAttempt ==
    /\ \A idx \in 1..Len(log) :
         log[idx].ev = "sleep" =>
            /\ idx > 1
            /\ log[idx - 1].ev = "get"
            /\ ~log[idx - 1].ok
            /\ log[idx].secs = Pow2(log[idx - 1].attempt - 1)
    /\ \A idx \in 1..Len(log) :
         log[idx].ev = "get" =>
            DelayBefore(idx) = IF log[idx].attempt = 1 THEN 0
                               ELSE Pow2(log[idx].attempt - 2)

\* A fourth attempt is made, 4 seconds after the third.
C2_Witness ==
    /\ entry = "fetch_city"
    /\ Len(log) >= 2
    /\ log[Len(log)].ev = "get"
    /\ log[Len(log)].attempt = 4
    /\ log[Len(log) - 1].ev = "sleep"
    /\ log[Len(log) - 1].secs = 4

Succeeded == fpc = "returned" /\ result.success = "true"

\* The files of this call that hold the whole payload.
PayloadFiles == SelectSeq(written, LAMBDA f : f.content.kind # "truncated")

AllAttemptsFailed ==
    /\ max_retries >= 1
    /\ Len(Gets) = max_retries
    /\ \A k \in 1..Len(Gets) : ~Gets[k].ok

\* C4: when each of the max_retries >= 1 attempts fails, the call does not
\* raise; it returns the failure result of the city, whose error is that of
\* the last attempt, without a raw_path, and it has written no raw file.
C4_FailureAfterExhaustion ==
    AllAttemptsFailed =>
        /\ fpc # "raised"
        /\ written = <<>>
        /\ (entry = "fetch_city" => rawDir = <<>>)
        /\ (fpc \in {"returned", "idle"} =>
              /\ DOMAIN result = {"city", "success", "error"}
              /\ result.city = city
              /\ result.success = "false"
              /\ result.error = Gets[Len(Gets)].err)

\* Three attempts fail, the first and the last with different errors, and the
\* call has returned.
C4_Witness ==
    /\ entry = "fetch_city"
    /\ AllAttemptsFailed
    /\ max_retries = 3
    /\ fpc = "returned"
    /\ Gets[1].err # Gets[3].err
    /\ result.error = Gets[3].err

(***************************************************************************)
(* The claims about the two loaders.                                       *)
(***************************************************************************)

Inserts == SelectSeq(loadLog, LAMBDA e : e.ev = "insert")
FirstSubmissions == SelectSeq(loadLog, LAMBDA e : e.ev = "insert" /\ e.attempt = 1)
SubmittedRows == Flatten([k \in 1..Len(FirstSubmissions) |-> FirstSubmissions[k].rows])
BatchSizes == [k \in 1..Len(FirstSubmissions) |-> Len(FirstSubmissions[k].rows)]
AttemptsOf(n) == SelectSeq(loadLog, LAMBDA e : e.ev = "insert" /\ e.batch_num = n)

\* ceil(n / b)
CeilDiv(n, b) == (n + b - 1) \div b

Loading == lpc \in {"loop", "insert", "failed"}

\* C5: no batch submitted holds more than batch_size rows; the batches, in
\* the order submitted and whether inserted or skipped, are the input rows,
\* each once and in the original order; there are ceil(N / batch_size) of
\* them: [200, 200, 50] for 450 rows and batch_size 200.  Both loaders.
C5_BatchesPartitionInput ==
    /\ \A k \in 1..Len(Inserts) :
         /\ Len(Inserts[k].rows) >= 1
         /\ Len(Inserts[k].rows) <= batch_size
         /\ Inserts[k].batch_num \in 1..Len(FirstSubmissions)
         /\ Inserts[k].rows = FirstSubmissions[Inserts[k].batch_num].rows
    /\ \A k \in 1..Len(FirstSubmissions) : FirstSubmissions[k].batch_num = k
    /\ (Loading \/ lpc = "complete") =>
         /\ total = Len(staged.rows)
         /\ Len(records) = total
         /\ Len(SubmittedRows) <= total
         /\ SubmittedRows = SubSeq(records, 1, Len(SubmittedRows))
    /\ lpc = "complete" =>
         /\ SubmittedRows = records
         /\ Len(FirstSubmissions) = CeilDiv(total, batch_size)
         /\ (total = 450 /\ batch_size = 200 => BatchSizes = <<200, 200, 50>>)

\* 450 rows are loaded in batches of 200; the second batch is skipped and the
\* other two are inserted.
C5_Witness ==
    /\ entry = "air_load"
    /\ lpc = "complete"
    /\ total = 450
    /\ batch_size = 200
    /\ BatchSizes = <<200, 200, 50>>
    /\ \E k \in 1..Len(loadLog) : loadLog[k].ev = "skip" /\ loadLog[k].batch_num = 2
    /\ Len(table) = 250

\* What C6 says of every state: a batch is skipped only after each of its
\* attempts raised, and when the loop has ended every batch was attempted.
C6_EveryBatchAttempted ==
    /\ \A k \in 1..Len(loadLog) :
         loadLog[k].ev = "skip" =>
            /\ AttemptsOf(loadLog[k].batch_num) # <<>>
            /\ \A a \in 1..Len(AttemptsOf(loadLog[k].batch_num)) :
                 AttemptsOf(loadLog[k].batch_num)[a].outcome = "raised"
    /\ lpc = "complete" =>
         \A n \in 1..CeilDiv(total, batch_size) : AttemptsOf(n) # <<>>

\* C6: in both loaders, whatever inserts fail, a batch whose every attempt
\* fails is skipped, every later batch is still attempted, and the load loop
\* reaches its end ("Load complete" / "Finished loading").
C6_FailedBatchDoesNotStopLoad ==
    /\ []C6_EveryBatchAttempted
    /\ Loading ~> (lpc = "complete")

\* Every attempt at the first batch raised, and the second batch was
\* attempted and inserted before the loop ended.
C6_Witness ==
    /\ entry \in {"air_load", "churn_load"}
    /\ lpc = "complete"
    /\ AttemptsOf(1) # <<>>
    /\ \A a \in 1..Len(AttemptsOf(1)) : AttemptsOf(1)[a].outcome = "raised"
    /\ AttemptsOf(2) # <<>>
    /\ AttemptsOf(2)[Len(AttemptsOf(2))].outcome = "inserted"

\* C7: the air-quality loader attempts every batch once or twice; the second
\* attempt is made exactly when the first raised, a sleep of 2 seconds (the
\* same for every attempt) precedes it, and no batch is submitted again
\* after an attempt at it succeeded.
C7_AtMostTwoAttempts ==
    entry \in {"air_load", "runner"} =>
        /\ \A n \in 1..(batch_num - 1) :
             LET a == AttemptsOf(n) IN
             /\ Len(a) \in {1, 2}
             /\ a[1].attempt = 1
             /\ (Len(a) = 2 <=> a[1].outcome = "raised")
             /\ (Len(a) = 2 => a[2].attempt = 2)
        /\ \A k \in 1..Len(loadLog) :
             /\ loadLog[k].ev = "insert" => loadLog[k].attempt \in {1, 2}
             /\ loadLog[k].ev = "sleep" => loadLog[k].secs = 2
             /\ (loadLog[k].ev = "insert" /\ loadLog[k].attempt > 1) =>
                   /\ k >= 3
                   /\ loadLog[k - 1].ev = "sleep"
                   /\ loadLog[k - 1].secs = 2
                   /\ loadLog[k - 2].ev = "insert"
                   /\ loadLog[k - 2].batch_num = loadLog[k].batch_num
                   /\ loadLog[k - 2].attempt = loadLog[k].attempt - 1
                   /\ loadLog[k - 2].outcome = "raised"
             /\ (loadLog[k].ev = "insert" /\ loadLog[k].outcome = "inserted") =>
                   \A j \in (k + 1)..Len(loadLog) :
                       ~(loadLog[j].ev = "insert"
                           /\ loadLog[j].batch_num = loadLog[k].batch_num)

\* The first batch is inserted at the second attempt, the second batch at the
\* first, and the third is skipped after two attempts.
C7_Witness ==
    /\ entry = "air_load"
    /\ lpc = "complete"
    /\ Len(AttemptsOf(1)) = 2 /\ AttemptsOf(1)[2].outcome = "inserted"
    /\ Len(AttemptsOf(2)) = 1
    /\ Len(AttemptsOf(3)) = 2 /\ AttemptsOf(3)[2].outcome = "raised"

(***************************************************************************)
(* The claim about the rows transform_all keeps.                           *)
(***************************************************************************)

MeasurementFields ==
    {"pm10", "pm2_5", "carbon_monoxide", "nitrogen_dioxide", "sulphur_dioxide",
     "ozone", "uv_index"}

\* A raw value that is not absent after the numeric coercion.
IsMeasured(x) == x.tag = "num"
HasMeasurement(r) == \E c \in MeasurementFields : IsMeasured(r[c])

\* The flattened rows transform_all processed, and those of them with a
\* measurement.
FlattenedRows == ConcatFrames(GlobJson(rawDir))

\* Row r of the input is the row o of the staged output.
SameRow(o, r) ==
    /\ o.city = r.city
    /\ o.time = r.time
    /\ \A c \in MeasurementFields :
         IF IsMeasured(r[c]) THEN o[c] = r[c] ELSE ~IsMeasured(o[c])

TransformWrote == tpc = "returned" /\ staged.by = "this run"

\* C8: a flattened row processed by transform_all is in the staged output if
\* and only if one of its seven measurement fields is not absent after the
\* numeric coercion.
C8_RowKeptIffMeasured ==
    TransformWrote =>
        /\ \A k \in 1..Len(FlattenedRows) :
             HasMeasurement(FlattenedRows[k]) <=>
                \E j \in 1..Len(staged.rows) : SameRow(staged.rows[j], FlattenedRows[k])
        /\ Len(staged.rows) =
             Cardinality({k \in 1..Len(FlattenedRows) : HasMeasurement(FlattenedRows[k])})
        /\ \A j \in 1..Len(staged.rows) :
             \E c \in MeasurementFields : IsMeasured(staged.rows[j][c])

\* A file with a row of seven absent values and a row with pm10 = 30 and no
\* pm2_5 was transformed: the first row is gone, the second is staged.
C8_Witness ==
    /\ entry = "transform"
    /\ TransformWrote
    /\ Len(FlattenedRows) = 2
    /\ ~HasMeasurement(FlattenedRows[1])
    /\ IsMeasured(FlattenedRows[2].pm10) /\ ~IsMeasured(FlattenedRows[2].pm2_5)
    /\ Len(staged.rows) = 1
    /\ staged.rows[1].time = FlattenedRows[2].time
    /\ staged.rows[1].pm10 = Num(30)

(***************************************************************************)
(* The claims about the pipeline runner.                                   *)
(***************************************************************************)

ClaimedOrder == <<"Extract", "Transform", "Schema", "Load", "Analysis">>

FullTrace == Flatten([k \in 1..Len(ClaimedOrder) |->
                        <<Begin(ClaimedOrder[k]), End(ClaimedOrder[k])>>])

Begun(st) == \E k \in 1..Len(stages) : stages[k] = Begin(st)
Running(st) == stages # <<>> /\ stages[Len(stages)] = Begin(st)

\* C9: the runner runs Extract, Transform, ensure-schema, Load, Analysis in
\* that order: a stage begins only after the one before it ended, none runs
\* twice, and whatever an earlier stage did, the order is the same.
C9_StagesInFixedOrder ==
    entry = "runner" =>
        /\ Len(stages) <= Len(FullTrace)
        /\ stages = SubSeq(FullTrace, 1, Len(stages))
        /\ (epc = "loop" \/ fpc \in {"loop", "backoff"}) => Running("Extract")
        /\ tpc = "start" => Running("Transform")
        /\ (lpc = "start" \/ Loading) => Running("Load")
        /\ results # <<>> => Begun("Extract")
        /\ staged.by = "this run" => Begun("Transform")
        /\ (schema # "untouched" <=> Begun("Schema"))
        /\ loadLog # <<>> => Begun("Load")
        /\ rpc = "completed" => stages = FullTrace

\* Every city failed to fetch and the creation of the table failed, and the
\* five stages ran to the end.
C9_Witness ==
    /\ entry = "runner"
    /\ rpc = "completed"
    /\ Len(results) = Len(cities)
    /\ Len(results) >= 2
    /\ \A k \in 1..Len(results) : results[k].success = "false"
    /\ schema = "sql printed"
    /\ stages = FullTrace

\* C10: with no staged file at the load stage nothing is inserted: the
\* air-quality loader and the runner raise FileNotFoundError (the runner
\* before schema creation, load and analysis), and the churn loader reports
\* the missing file and returns.
C10_MissingStagedFileStops ==
    /\ ~staged.exists =>
         /\ loadLog = <<>>
         /\ table = <<>>
         /\ ~Loading /\ lpc # "complete"
         /\ schema = "untouched"
         /\ ~Begun("Schema") /\ ~Begun("Load") /\ ~Begun("Analysis")
         /\ rpc \notin {"load", "completed"}
    /\ (entry = "air_load" /\ credentials /\ ~staged.exists /\ lpc # "start") =>
         lpc = "FileNotFoundError"
    /\ (entry = "churn_load" /\ ~staged.exists /\ lpc # "start") =>
         lpc = "returned"
    /\ (entry = "runner" /\ ~staged.exists /\ tpc = "returned" /\ rpc # "transform") =>
         rpc = "FileNotFoundError"
    /\ (lpc = "FileNotFoundError" \/ rpc = "FileNotFoundError") => ~staged.exists

\* The runner found no staged file after a transform that wrote none, and
\* raised.
C10_Witness ==
    /\ entry = "runner"
    /\ rpc = "FileNotFoundError"
    /\ ~staged.exists
    /\ tpc = "returned"
    /\ stages = <<Begin("Extract"), End("Extract"), Begin("Transform"), End("Transform")>>

(***************************************************************************)
(* The claims about the churn validator.                                   *)
(***************************************************************************)

Validated == vpc = "completed"

\* A step of validate_data.
ValidatorStep == vpc' # vpc

\* What the row-count check says of the store as it is.
C11_ReportAgreesWithStore ==
    Validated =>
        /\ report.original_rows = original.rows
        /\ report.supabase_rows = Len(table)
        /\ (report.row_count = "Row count matches original dataset")
              <=> (Len(table) = original.rows)
        /\ (report.row_count = "Row count mismatch")
              <=> (Len(table) # original.rows)

\* C11: validate_data reports "Row count matches original dataset" if and
\* only if the table holds exactly as many rows as the original CSV, and
\* "Row count mismatch" otherwise; no step of the validator changes the
\* table (or the original CSV).
C11_RowCountMatchesIffEqual ==
    /\ []C11_ReportAgreesWithStore
    /\ [][ValidatorStep => table' = table /\ original' = original]_vars

\* A validation that reports a match on a table holding every row twice:
\* the number of rows and the number of distinct rows differ.
C11_Witness ==
    /\ Validated
    /\ report.row_count = "Row count matches original dataset"
    /\ report.unique_rows < report.supabase_rows
    /\ Len(table) = original.rows

(***************************************************************************)
(* The sleeps of _fetch_city.                                              *)
(***************************************************************************)

\* C12: _fetch_city sleeps only between attempts: once the call returned,
\* every sleep of it is followed by another attempt, and when all of the
\* max_retries >= 1 attempts failed there were max_retries - 1 sleeps of
\* 2^(max_retries-1) - 1 seconds in total, none after the last attempt.
C12_SleepsOnlyBetweenAttempts ==
    fpc = "returned" =>
        /\ \A k \in 1..Len(log) :
             log[k].ev = "sleep" => (k < Len(log) /\ log[k + 1].ev = "get")
        /\ AllAttemptsFailed =>
             /\ Len(Sleeps) = max_retries - 1
             /\ SleptTotal = Pow2(max_retries - 1) - 1
             /\ log[Len(log)].ev = "get"

(***************************************************************************)
(* The staged file across runs of transform_all.                           *)
(***************************************************************************)

\* C13: every run of transform_all that returns has written the staged file
\* exactly once, so the file holds no rows of an earlier run; and the file the
\* runner's load stage reads was written by the run's own transform stage.
C13_StagedFileWrittenEveryRun ==
    /\ tpc = "returned" =>
         /\ staged.exists
         /\ staged.writes = 1
         /\ staged.by = "this run"
    /\ (entry = "runner" /\ (Begun("Load") \/ lpc # "idle")) =>
         staged.by = "this run"

(***************************************************************************)
(* The tenure groups of the churn pipeline.                                *)
(***************************************************************************)

\* The rows are those the loader makes of the transformer's output.
FromTransformer(rows) ==
    \A k \in 1..Len(rows) :
        /\ DOMAIN rows[k] = {"tenure", "monthlycharges", "tenure_group"}
        /\ rows[k].tenure_group = CsvCell(tenure_group(rows[k].tenure))

\* The tenures of a customer, in months, the bins of the transformer and the
\* validator's labels cover.
Tenures == 0..80

\* C14: no tenure_group the transformer writes (New, Regular, Loyal, Champion
\* or absent) is in the validator's expected set; so a validation of a
\* non-empty table loaded from the transformer's output reports
\* "tenure_group valid: False", and the validator, once it fetched the rows,
\* completes with its summary.
C14_TenureGroupsNeverValid ==
    /\ \A t \in Tenures : CsvCell(tenure_group(t)) \notin expected_tenure_groups
    /\ (Validated /\ db_rows # <<>> /\ FromTransformer(db_rows)) =>
          report.tenure_group_valid = "False"
    /\ report.tenure_group_valid # "not reported" => Validated
    /\ vpc = "fetched" => ENABLED validate_data_summary

\* The churn loader inserted the three batches of 450 staged rows and the
\* validator ran on them: the rows carry the four labels of the transformer
\* and one absent group, and the summary says False.
C14_Witness ==
    /\ entry = "churn_load"
    /\ Validated
    /\ Len(db_rows) = 450
    /\ FromTransformer(db_rows)
    /\ {db_rows[k].tenure_group : k \in 1..Len(db_rows)} =
          {NoneValue, Label("New"), Label("Regular"), Label("Loyal"), Label("Champion")}
    /\ report.tenure_group_valid = "False"

(***************************************************************************)
(* The writes of _save_raw.                                                *)
(***************************************************************************)

\* C15: a failure of the JSON write is recovered by the textual fallback and
\* never propagated: whatever the two writes do, once a request succeeded
\* _save_raw has returned a path and _fetch_city has returned its result;
\* no exception leaves _fetch_city (or, through it, fetch_all_cities).
C15_SaveNeverRaises ==
    /\ (Len(Gets) > 0 /\ Gets[Len(Gets)].ok) =>
          /\ fpc \in {"returned", "idle"}
          /\ written # <<>>
          /\ \E k \in 1..Len(written) : PathOf(written[k]) = result.raw_path
    /\ fpc # "raised"
    /\ epc # "raised"

(***************************************************************************)
(* The derived columns of transform_all.                                   *)
(***************************************************************************)

SeverityInputs ==
    {"pm2_5", "pm10", "nitrogen_dioxide", "sulphur_dioxide", "carbon_monoxide", "ozone"}

RiskFlags == {Label("High Risk"), Label("Moderate Risk"), Label("Low Risk")}

\* C16: every row transform_all staged has a risk_flag among High Risk,
\* Moderate Risk and Low Risk, never an absent one; a staged row with an
\* absent severity input has an absent severity_score and the flag Low Risk;
\* and its aqi_category is absent exactly when its pm2_5 is absent.
C16_RiskFlagNeverAbsent ==
    TransformWrote =>
        \A j \in 1..Len(staged.rows) :
            LET r == staged.rows[j] IN
            /\ r.risk_flag \in RiskFlags
            /\ (\E c \in SeverityInputs : ~IsMeasured(r[c])) =>
                  /\ ~IsMeasured(r.severity_score)
                  /\ r.risk_flag = Label("Low Risk")
            /\ (\A c \in SeverityInputs : IsMeasured(r[c])) =>
                  IsMeasured(r.severity_score)
            /\ ~IsMeasured(r.pm2_5) <=> r.aqi_category \notin
                  {Label("Good"), Label("Moderate"), Label("Unhealthy"),
                   Label("Very Unhealthy"), Label("Hazardous")}

\* A staged row whose only measurement is uv_index: kept, with no
\* severity_score, no aqi_category and the flag Low Risk.
C16_Witness ==
    /\ TransformWrote
    /\ \E j \in 1..Len(staged.rows) :
         /\ IsMeasured(staged.rows[j].uv_index)
         /\ \A c \in SeverityInputs : ~IsMeasured(staged.rows[j][c])
         /\ staged.rows[j].severity_score = NaN
         /\ staged.rows[j].aqi_category = NaN
         /\ staged.rows[j].risk_flag = Label("Low Risk")

=============================================================================
